---------------------------- MODULE Spec2Model ----------------------------
(***************************************************************************)
(* The task header of glommio (src/task/header.rs): the state word, the    *)
(* awaiter cell, and the cancel / notify / register protocol over them.    *)
(*                                                                         *)
(* Two views of the same code are modelled:                                *)
(*   - whole calls (Spec, SpecAny): cancel, notify and register each run   *)
(*     to completion, as `&mut self` guarantees;                           *)
(*   - single statements (SpecConc): one notify call and one register call *)
(*     interleaved at the level of state-word reads, state-word writes and *)
(*     cell accesses.                                                      *)
(***************************************************************************)
EXTENDS Integers, Sequences, FiniteSets, TLC

VARIABLES
    state,      \* Header::state, the state word
    awaiter,    \* Header::awaiter, the cell: None or a waker
    hist,       \* the most recent completed calls, oldest first
    notifier,   \* the locals and position of a notify call in progress
    registrant, \* the locals and position of a register call in progress
    woken       \* the wakes delivered by the calls in progress, in order

vars == <<state, awaiter, hist, notifier, registrant, woken>>

----------------------------------------------------------------------------
(* Bounds *)

\* Wakers are 1..NumWakers.
NumWakers == 3

\* Width of the reference count field of the modelled state word.
RefBits == 1

\* Payload types have sizes 0..MaxSize and alignments 2^0..2^MaxAlignLog.
MaxSize == 16

MaxAlignLog == 6

----------------------------------------------------------------------------
(* The state word: crate::task::state *)

SCHEDULED == 1
RUNNING == 2
COMPLETED == 4
CLOSED == 8
HANDLE == 16
AWAITER == 32
REGISTERING == 64
NOTIFYING == 128
REFERENCE == 256

\* All bits of the modelled word: the flags and RefBits bits of count.
WordMask == REFERENCE * (2 ^ RefBits) - 1

Words == 0..WordMask

RECURSIVE BitAnd(_, _)
BitAnd(a, b) ==
    IF a = 0 \/ b = 0 THEN 0
    ELSE (a % 2) * (b % 2) + 2 * BitAnd(a \div 2, b \div 2)

RECURSIVE BitOr(_, _)
BitOr(a, b) ==
    IF a = 0 THEN b
    ELSE IF b = 0 THEN a
    ELSE (IF a % 2 = 1 \/ b % 2 = 1 THEN 1 ELSE 0)
         + 2 * BitOr(a \div 2, b \div 2)

\* `!x` on the word.
BitNot(a) == WordMask - a

\* state / REFERENCE, as the Debug view computes the count.
ref_count(s) == s \div REFERENCE

----------------------------------------------------------------------------
(* Wakers *)

\* Option::None, for the cell and for notify's `current`.
None == 0

Wakers == 1..NumWakers

\* The task a waker wakes: wakers 1 and 2 wake the same task, 3 another.
TaskOf(w) == (w + 1) \div 2

\* Waker::will_wake: both wakers wake the same task.
will_wake(w, c) == TaskOf(w) = TaskOf(c)

\* Waker::clone: another handle on the same task; the cell holds it under
\* the identity of the waker it was cloned from.
clone(w) == w

\* crate::task::utils::abort_on_panic(f): f runs under a guard that aborts
\* the process when f panics; otherwise its result is returned.
abort_on_panic(faults) == IF faults THEN "abort" ELSE "return"

\* A wake called outside abort_on_panic: its panic unwinds into the caller.
unguarded_wake(faults) == IF faults THEN "unwind" ELSE "return"

\* The wake invocations of notify (line 64) and register (lines 88 and 122):
\* each runs inside abort_on_panic.  faults: the waker's wake panics.
guarded_wake(faults) == abort_on_panic(faults)

\* Whether the wake of a call that wakes `woke` may panic: any wake may.
Faults(woke) == IF woke = <<>> THEN {FALSE} ELSE BOOLEAN

----------------------------------------------------------------------------
(* Whole calls.  A header h is [state, awaiter]; a call returns the header  *)
(* after it, the wakers it woke in order, and whether it panicked.         *)

Header(s, c) == [state |-> s, awaiter |-> c]

Outcome(s, c, w, p) == [state |-> s, awaiter |-> c, woke |-> w, panic |-> p]

\* cancel without its check: it closes a completed task too.
cancelUnguarded(h) ==
    Outcome(CLOSED, h.awaiter, <<>>, FALSE)

\* cancel checking CLOSED only.
cancelClosedOnly(h) ==
    IF BitAnd(h.state, CLOSED) # 0
    THEN Outcome(h.state, h.awaiter, <<>>, FALSE)
    ELSE Outcome(CLOSED, h.awaiter, <<>>, FALSE)

\* cancel setting the CLOSED bit in the word instead of replacing the word.
cancelSetsBit(h) ==
    IF BitAnd(h.state, BitOr(COMPLETED, CLOSED)) # 0
    THEN Outcome(h.state, h.awaiter, <<>>, FALSE)
    ELSE Outcome(BitOr(h.state, CLOSED), h.awaiter, <<>>, FALSE)

\* Header::cancel
cancel(h) ==
    IF BitAnd(h.state, BitOr(COMPLETED, CLOSED)) # 0
    THEN Outcome(h.state, h.awaiter, <<>>, FALSE)
    ELSE Outcome(CLOSED, h.awaiter, <<>>, FALSE)

\* The match without its will_wake guard.
wakesAlways(w, current) == TRUE

\* The match of notify's wake closure: does w.wake() run?
wakes(w, current) ==
    IF current = None THEN TRUE
    ELSE ~will_wake(w, current)

\* notify with the final mask `!NOTIFYING` only: AWAITER stays set.
notifyKeepsAwaiter(h, current) ==
    LET snap == h.state
        s1 == BitOr(h.state, NOTIFYING)
    IN  IF BitAnd(snap, BitOr(NOTIFYING, REGISTERING)) = 0
        THEN LET waker == h.awaiter
                 s2 == BitAnd(s1, BitNot(NOTIFYING))
             IN  Outcome(s2, None,
                         IF waker # None /\ wakes(waker, current)
                         THEN <<waker>> ELSE <<>>,
                         FALSE)
        ELSE Outcome(s1, h.awaiter, <<>>, FALSE)

\* notify with the final mask `!AWAITER` only: NOTIFYING stays set.
notifyStaysNotifying(h, current) ==
    LET snap == h.state
        s1 == BitOr(h.state, NOTIFYING)
    IN  IF BitAnd(snap, BitOr(NOTIFYING, REGISTERING)) = 0
        THEN LET waker == h.awaiter
                 s2 == BitAnd(s1, BitNot(AWAITER))
             IN  Outcome(s2, None,
                         IF waker # None /\ wakes(waker, current)
                         THEN <<waker>> ELSE <<>>,
                         FALSE)
        ELSE Outcome(s1, h.awaiter, <<>>, FALSE)

\* notify draining the cell only when the snapshot has AWAITER set.
notifyIfAwaiter(h, current) ==
    LET snap == h.state
        s1 == BitOr(h.state, NOTIFYING)
    IN  IF BitAnd(snap, BitOr(NOTIFYING, REGISTERING)) = 0
        THEN LET waker == IF BitAnd(snap, AWAITER) # 0
                          THEN h.awaiter ELSE None
                 s2 == BitAnd(s1, BitAnd(BitNot(NOTIFYING), BitNot(AWAITER)))
             IN  Outcome(s2,
                         IF BitAnd(snap, AWAITER) # 0 THEN None ELSE h.awaiter,
                         IF waker # None /\ wakes(waker, current)
                         THEN <<waker>> ELSE <<>>,
                         FALSE)
        ELSE Outcome(s1, h.awaiter, <<>>, FALSE)

\* notify cloning the waker out of the cell instead of taking it.
notifyNoTake(h, current) ==
    LET snap == h.state
        s1 == BitOr(h.state, NOTIFYING)
    IN  IF BitAnd(snap, BitOr(NOTIFYING, REGISTERING)) = 0
        THEN LET waker == h.awaiter
                 s2 == BitAnd(s1, BitAnd(BitNot(NOTIFYING), BitNot(AWAITER)))
             IN  Outcome(s2, h.awaiter,
                         IF waker # None /\ wakes(waker, current)
                         THEN <<waker>> ELSE <<>>,
                         FALSE)
        ELSE Outcome(s1, h.awaiter, <<>>, FALSE)

\* notify testing the snapshot for NOTIFYING only.
notifyIgnoresRegistering(h, current) ==
    LET snap == h.state
        s1 == BitOr(h.state, NOTIFYING)
    IN  IF BitAnd(snap, NOTIFYING) = 0
        THEN LET waker == h.awaiter
                 s2 == BitAnd(s1, BitAnd(BitNot(NOTIFYING), BitNot(AWAITER)))
             IN  Outcome(s2, None,
                         IF waker # None /\ wakes(waker, current)
                         THEN <<waker>> ELSE <<>>,
                         FALSE)
        ELSE Outcome(s1, h.awaiter, <<>>, FALSE)

\* notify putting a waker it did not wake back into the cell.
notifyRestoresSuppressed(h, current) ==
    LET snap == h.state
        s1 == BitOr(h.state, NOTIFYING)
    IN  IF BitAnd(snap, BitOr(NOTIFYING, REGISTERING)) = 0
        THEN LET waker == h.awaiter
                 s2 == BitAnd(s1, BitAnd(BitNot(NOTIFYING), BitNot(AWAITER)))
             IN  IF waker # None /\ ~wakes(waker, current)
                 THEN Outcome(BitAnd(s1, BitNot(NOTIFYING)), waker, <<>>,
                              FALSE)
                 ELSE Outcome(s2, None,
                              IF waker # None THEN <<waker>> ELSE <<>>,
                              FALSE)
        ELSE Outcome(s1, h.awaiter, <<>>, FALSE)

\* Header::notify
notify(h, current) ==
    LET snap == h.state
        s1 == BitOr(h.state, NOTIFYING)
    IN  IF BitAnd(snap, BitOr(NOTIFYING, REGISTERING)) = 0
        THEN LET waker == h.awaiter
                 s2 == BitAnd(s1, BitAnd(BitNot(NOTIFYING), BitNot(AWAITER)))
             IN  Outcome(s2, None,
                         IF waker # None /\ wakes(waker, current)
                         THEN <<waker>> ELSE <<>>,
                         FALSE)
        ELSE Outcome(s1, h.awaiter, <<>>, FALSE)

\* register without the `return` of line 89: after the immediate wake it
\* goes on to store the waker.
registerNoReturn(h, waker, debug) ==
    LET snap == h.state
    IN  IF debug /\ BitAnd(snap, REGISTERING) # 0
        THEN Outcome(h.state, h.awaiter, <<>>, TRUE)
        ELSE LET early == IF BitAnd(snap, NOTIFYING) # 0
                          THEN <<waker>> ELSE <<>>
                 cell1 == clone(waker)
                 drain == BitAnd(snap, NOTIFYING) # 0
                 taken == IF drain THEN cell1 ELSE None
                 cell2 == IF drain THEN None ELSE cell1
                 new == IF taken = None
                        THEN BitOr(BitAnd(snap, BitAnd(BitNot(NOTIFYING),
                                                       BitNot(REGISTERING))),
                                   AWAITER)
                        ELSE BitAnd(snap,
                                    BitAnd(BitNot(NOTIFYING),
                                           BitAnd(BitNot(REGISTERING),
                                                  BitNot(AWAITER))))
             IN  Outcome(new, cell2,
                         early \o (IF taken # None THEN <<taken>> ELSE <<>>),
                         FALSE)

\* register committing AWAITER alone, without the bits of the snapshot.
registerDropsWord(h, waker, debug) ==
    LET snap == h.state
    IN  IF debug /\ BitAnd(snap, REGISTERING) # 0
        THEN Outcome(h.state, h.awaiter, <<>>, TRUE)
        ELSE IF BitAnd(snap, NOTIFYING) # 0
        THEN Outcome(h.state, h.awaiter, <<waker>>, FALSE)
        ELSE Outcome(AWAITER, clone(waker), <<>>, FALSE)

\* register committing from the current word, which holds REGISTERING since
\* line 92, instead of from the snapshot.
registerStaysRegistering(h, waker, debug) ==
    LET snap == h.state
    IN  IF debug /\ BitAnd(snap, REGISTERING) # 0
        THEN Outcome(h.state, h.awaiter, <<>>, TRUE)
        ELSE IF BitAnd(snap, NOTIFYING) # 0
        THEN Outcome(h.state, h.awaiter, <<waker>>, FALSE)
        ELSE Outcome(BitOr(BitAnd(BitOr(h.state, REGISTERING),
                                  BitNot(NOTIFYING)),
                           AWAITER),
                     clone(waker), <<>>, FALSE)

\* register without the store of lines 95-97.
registerSkipsStore(h, waker, debug) ==
    LET snap == h.state
    IN  IF debug /\ BitAnd(snap, REGISTERING) # 0
        THEN Outcome(h.state, h.awaiter, <<>>, TRUE)
        ELSE IF BitAnd(snap, NOTIFYING) # 0
        THEN Outcome(h.state, h.awaiter, <<waker>>, FALSE)
        ELSE Outcome(BitOr(BitAnd(snap, BitAnd(BitNot(NOTIFYING),
                                               BitNot(REGISTERING))),
                           AWAITER),
                     h.awaiter, <<>>, FALSE)

\* register storing its waker only into an empty cell.
registerKeepsOld(h, waker, debug) ==
    LET snap == h.state
    IN  IF debug /\ BitAnd(snap, REGISTERING) # 0
        THEN Outcome(h.state, h.awaiter, <<>>, TRUE)
        ELSE IF BitAnd(snap, NOTIFYING) # 0
        THEN Outcome(h.state, h.awaiter, <<waker>>, FALSE)
        ELSE Outcome(BitOr(BitAnd(snap, BitAnd(BitNot(NOTIFYING),
                                               BitNot(REGISTERING))),
                           AWAITER),
                     IF h.awaiter = None THEN clone(waker) ELSE h.awaiter,
                     <<>>, FALSE)

\* Header::register.  debug is cfg(debug_assertions): the debug_assert!
\* panics in a debug build and is absent from a release build.
register(h, waker, debug) ==
    LET snap == h.state
    IN  IF debug /\ BitAnd(snap, REGISTERING) # 0
        THEN Outcome(h.state, h.awaiter, <<>>, TRUE)
        ELSE IF BitAnd(snap, NOTIFYING) # 0
        THEN Outcome(h.state, h.awaiter, <<waker>>, FALSE)
        ELSE LET s1 == BitOr(h.state, REGISTERING)
                 cell1 == clone(waker)
                 \* the re-check reads the snapshot taken on entry
                 drain == BitAnd(snap, NOTIFYING) # 0
                 taken == IF drain THEN cell1 ELSE None
                 cell2 == IF drain THEN None ELSE cell1
                 new == IF taken = None
                        THEN BitOr(BitAnd(snap, BitAnd(BitNot(NOTIFYING),
                                                       BitNot(REGISTERING))),
                                   AWAITER)
                        ELSE BitAnd(snap,
                                    BitAnd(BitNot(NOTIFYING),
                                           BitAnd(BitNot(REGISTERING),
                                                  BitNot(AWAITER))))
             IN  Outcome(new, cell2,
                         IF taken # None THEN <<taken>> ELSE <<>>,
                         FALSE)

----------------------------------------------------------------------------
(* The calls as actions.  hist keeps the last `depth` completed calls.     *)

Call(op, arg, out) ==
    [op |-> op, arg |-> arg,
     pre |-> state, precell |-> awaiter,
     post |-> out.state, postcell |-> out.awaiter,
     woke |-> out.woke, panic |-> out.panic]

Remember(e, depth) ==
    IF Len(hist) < depth THEN Append(hist, e) ELSE Append(Tail(hist), e)

Idle == [pc |-> "idle"]

\* The process has aborted: no call is in progress and none can start.
Dead == [pc |-> "aborted"]

Aborted == notifier = Dead /\ registrant = Dead

\* How a call whose wake ends as `end` leaves the process.
Ends(end) ==
    IF end = "abort"
    THEN notifier' = Dead /\ registrant' = Dead
    ELSE UNCHANGED <<notifier, registrant>>

\* No call is in progress: `&mut self` admits one call at a time.
Exclusive == notifier = Idle /\ registrant = Idle

\* The builds that differ on a call of register from state word s: the
\* debug_assert! tells a debug build from a release build only when it fails.
Builds(s) == IF BitAnd(s, REGISTERING) # 0 THEN BOOLEAN ELSE {FALSE}

CallCancel(depth) ==
    \E out \in {cancel(Header(state, awaiter))} :
        /\ Exclusive
        /\ state' = out.state
        /\ awaiter' = out.awaiter
        /\ hist' = Remember(Call("cancel", None, out), depth)
        /\ UNCHANGED <<notifier, registrant, woken>>

CallNotify(depth) ==
    \E current \in {None} \cup Wakers :
        \E out \in {notify(Header(state, awaiter), current)} :
            \E fault \in Faults(out.woke) :
                /\ Exclusive
                /\ state' = out.state
                /\ awaiter' = out.awaiter
                /\ hist' = Remember(Call("notify", current, out), depth)
                /\ Ends(guarded_wake(fault))
                /\ UNCHANGED woken

CallRegister(depth) ==
    \E waker \in Wakers, debug \in Builds(state) :
        \E out \in {register(Header(state, awaiter), waker, debug)} :
            \E fault \in Faults(out.woke) :
                /\ Exclusive
                /\ state' = out.state
                /\ awaiter' = out.awaiter
                /\ hist' = Remember(Call("register", waker, out), depth)
                /\ Ends(guarded_wake(fault))
                /\ UNCHANGED woken

\* A header on which no call is in progress and none has been made.
Fresh ==
    /\ hist = <<>>
    /\ notifier = Idle
    /\ registrant = Idle
    /\ woken = <<>>

\* The bits the header's own operations never set: the word as allocated
\* (scheduled, one handle, one reference) and a running task holding the
\* most references the modelled word can count.
OtherBits ==
    {SCHEDULED + HANDLE + REFERENCE,
     RUNNING + REFERENCE * (2 ^ RefBits - 1)}

\* A live, a completed, a closed, and a completed-then-closed task.
Lifecycles == {0, COMPLETED, CLOSED, COMPLETED + CLOSED}

\* Sequential use: no waker registered yet, no notify or register under way.
Init ==
    /\ state \in {BitOr(l, o) : l \in Lifecycles, o \in OtherBits}
    /\ awaiter = None
    /\ Fresh

\* The claims about sequences of calls span at most three consecutive calls.
Next ==
    \/ CallCancel(3)
    \/ CallNotify(3)
    \/ CallRegister(3)

Spec == Init /\ [][Next]_vars

\* Any state word and any cell; the claims about one call from any state
\* look at the last call only.
InitAny ==
    /\ state \in Words
    /\ awaiter \in {None} \cup Wakers
    /\ Fresh

NextAny ==
    \/ CallCancel(1)
    \/ CallNotify(1)
    \/ CallRegister(1)

SpecAny == InitAny /\ [][NextAny]_vars

----------------------------------------------------------------------------
(* Single statements: one notify call and one register call, each a        *)
(* sequence of steps that reads the state word, writes it, or accesses the *)
(* cell.  `self.state |= F` and `self.state &= M` are a read and a write.  *)
(* A position is named after the source line of the step to run next.      *)

\* A wake invocation: who called it, on which waker, and whether it panicked.
Wake(by, waker, fault) == [by |-> by, waker |-> waker, fault |-> fault]

\* How a wake step of call `by` that ends as `end` leaves the two calls: the
\* process aborted, or the panic unwound out of the call, or the wake
\* returned and the call goes on as `after`.
Returns(end, by, after) ==
    IF end = "abort"
    THEN notifier' = Dead /\ registrant' = Dead
    ELSE LET call == IF end = "unwind"
                     THEN [after EXCEPT !.pc = "panicked"]
                     ELSE after
         IN  IF by = "notify"
             THEN notifier' = call /\ registrant' = registrant
             ELSE registrant' = call /\ notifier' = notifier

\* notify is entered; began and ended note where the register call stands
\* when notify is entered and when it returns.
NotifyBegin ==
    \E current \in {None} \cup Wakers :
        /\ notifier = Idle
        /\ notifier' = [pc |-> "n50", current |-> current, snap |-> 0,
                        tmp |-> 0, waker |-> None,
                        began |-> registrant.pc, ended |-> "none"]
        /\ UNCHANGED <<state, awaiter, hist, registrant, woken>>

\* line 50: let state = self.state
NotifySnapshot ==
    /\ notifier.pc = "n50"
    /\ notifier' = [notifier EXCEPT !.pc = "n52r", !.snap = state]
    /\ UNCHANGED <<state, awaiter, hist, registrant, woken>>

\* line 52, the read of self.state |= NOTIFYING
NotifyLoadMark ==
    /\ notifier.pc = "n52r"
    /\ notifier' = [notifier EXCEPT !.pc = "n52w", !.tmp = state]
    /\ UNCHANGED <<state, awaiter, hist, registrant, woken>>

\* line 52, the write; then line 55, the test of the snapshot
NotifyStoreMark ==
    /\ notifier.pc = "n52w"
    /\ state' = BitOr(notifier.tmp, NOTIFYING)
    /\ notifier' =
         IF BitAnd(notifier.snap, BitOr(NOTIFYING, REGISTERING)) = 0
         THEN [notifier EXCEPT !.pc = "n57"]
         ELSE [notifier EXCEPT !.pc = "done", !.ended = registrant.pc]
    /\ UNCHANGED <<awaiter, hist, registrant, woken>>

\* line 57: (*self.awaiter.get()).take()
NotifyTake ==
    /\ notifier.pc = "n57"
    /\ notifier' = [notifier EXCEPT !.pc = "n60r", !.waker = awaiter]
    /\ awaiter' = None
    /\ UNCHANGED <<state, hist, registrant, woken>>

\* line 60, the read of self.state &= !NOTIFYING & !AWAITER
NotifyLoadClear ==
    /\ notifier.pc = "n60r"
    /\ notifier' = [notifier EXCEPT !.pc = "n60w", !.tmp = state]
    /\ UNCHANGED <<state, awaiter, hist, registrant, woken>>

\* line 60, the write
NotifyStoreClear ==
    /\ notifier.pc = "n60w"
    /\ state' = BitAnd(notifier.tmp,
                       BitAnd(BitNot(NOTIFYING), BitNot(AWAITER)))
    /\ notifier' = [notifier EXCEPT !.pc = "n62"]
    /\ UNCHANGED <<awaiter, hist, registrant, woken>>

\* lines 62-69: wake the waker taken, unless it is the current one
NotifyWake ==
    /\ notifier.pc = "n62"
    /\ IF notifier.waker # None /\ wakes(notifier.waker, notifier.current)
       THEN \E fault \in BOOLEAN :
              /\ woken' = Append(woken, Wake("notify", notifier.waker, fault))
              /\ Returns(guarded_wake(fault), "notify",
                         [notifier EXCEPT !.pc = "done",
                                          !.ended = registrant.pc])
       ELSE /\ woken' = woken
            /\ Returns("return", "notify",
                       [notifier EXCEPT !.pc = "done",
                                        !.ended = registrant.pc])
    /\ UNCHANGED <<state, awaiter, hist>>

\* register is entered.
RegisterBegin ==
    \E waker \in Wakers :
        /\ registrant = Idle
        /\ registrant' = [pc |-> "r79", arg |-> waker, snap |-> 0,
                          tmp |-> 0, waker |-> None]
        /\ UNCHANGED <<state, awaiter, hist, notifier, woken>>

\* line 79: let state = self.state; then the debug_assert! of line 83 and
\* the test of line 87 on the snapshot
RegisterSnapshot ==
    /\ registrant.pc = "r79"
    /\ \E debug \in Builds(state) :
        registrant' =
           [registrant EXCEPT
              !.snap = state,
              !.pc = IF debug /\ BitAnd(state, REGISTERING) # 0
                     THEN "panicked"
                     ELSE IF BitAnd(state, NOTIFYING) # 0 THEN "r88"
                     ELSE "r92r"]
    /\ UNCHANGED <<state, awaiter, hist, notifier, woken>>

\* line 88: waker.wake_by_ref(), and return
RegisterWakeNow ==
    /\ registrant.pc = "r88"
    /\ \E fault \in BOOLEAN :
        /\ woken' = Append(woken, Wake("register", registrant.arg, fault))
        /\ Returns(guarded_wake(fault), "register",
                   [registrant EXCEPT !.pc = "done"])
    /\ UNCHANGED <<state, awaiter, hist>>

\* line 92, the read of self.state |= REGISTERING
RegisterLoadMark ==
    /\ registrant.pc = "r92r"
    /\ registrant' = [registrant EXCEPT !.pc = "r92w", !.tmp = state]
    /\ UNCHANGED <<state, awaiter, hist, notifier, woken>>

\* line 92, the write
RegisterStoreMark ==
    /\ registrant.pc = "r92w"
    /\ state' = BitOr(registrant.tmp, REGISTERING)
    /\ registrant' = [registrant EXCEPT !.pc = "r96"]
    /\ UNCHANGED <<awaiter, hist, notifier, woken>>

\* line 96: *self.awaiter.get() = Some(waker.clone())
RegisterPut ==
    /\ registrant.pc = "r96"
    /\ awaiter' = clone(registrant.arg)
    /\ registrant' = [registrant EXCEPT !.pc = "r104"]
    /\ UNCHANGED <<state, hist, notifier, woken>>

\* lines 104-108: the re-check, on the snapshot of line 79, and the take
RegisterRecheck ==
    /\ registrant.pc = "r104"
    /\ IF BitAnd(registrant.snap, NOTIFYING) # 0
       THEN /\ registrant' = [registrant EXCEPT !.pc = "r118",
                                                !.waker = awaiter]
            /\ awaiter' = None
       ELSE /\ registrant' = [registrant EXCEPT !.pc = "r118"]
            /\ awaiter' = awaiter
    /\ UNCHANGED <<state, hist, notifier, woken>>

\* lines 112-118: self.state = new, computed from the snapshot
RegisterCommit ==
    /\ registrant.pc = "r118"
    /\ state' =
         IF registrant.waker = None
         THEN BitOr(BitAnd(registrant.snap,
                           BitAnd(BitNot(NOTIFYING), BitNot(REGISTERING))),
                    AWAITER)
         ELSE BitAnd(registrant.snap,
                     BitAnd(BitNot(NOTIFYING),
                            BitAnd(BitNot(REGISTERING), BitNot(AWAITER))))
    /\ registrant' = [registrant EXCEPT !.pc = "r121"]
    /\ UNCHANGED <<awaiter, hist, notifier, woken>>

\* lines 121-123: wake the waker drained by the re-check
RegisterWake ==
    /\ registrant.pc = "r121"
    /\ IF registrant.waker # None
       THEN \E fault \in BOOLEAN :
              /\ woken' = Append(woken,
                                 Wake("register", registrant.waker, fault))
              /\ Returns(guarded_wake(fault), "register",
                         [registrant EXCEPT !.pc = "done"])
       ELSE /\ woken' = woken
            /\ Returns("return", "register",
                       [registrant EXCEPT !.pc = "done"])
    /\ UNCHANGED <<state, awaiter, hist>>

\* The header before the two calls: a task as allocated, live or completed,
\* with or without a waker left by an earlier register.
InitConc ==
    /\ \E l \in {0, COMPLETED}, prior \in {None} \cup Wakers :
        /\ awaiter = prior
        /\ state = BitOr(BitOr(l, SCHEDULED + HANDLE + REFERENCE),
                         IF prior = None THEN 0 ELSE AWAITER)
    /\ Fresh

NextConc ==
    \/ NotifyBegin
    \/ NotifySnapshot
    \/ NotifyLoadMark
    \/ NotifyStoreMark
    \/ NotifyTake
    \/ NotifyLoadClear
    \/ NotifyStoreClear
    \/ NotifyWake
    \/ RegisterBegin
    \/ RegisterSnapshot
    \/ RegisterWakeNow
    \/ RegisterLoadMark
    \/ RegisterStoreMark
    \/ RegisterPut
    \/ RegisterRecheck
    \/ RegisterCommit
    \/ RegisterWake

SpecConc == InitConc /\ [][NextConc]_vars

----------------------------------------------------------------------------
(* The layout calculator *)

\* core::alloc::Layout
Layout(size, align) == [size |-> size, align |-> align]

\* The pointer widths of the targets, in bytes.
PointerWidths == {4, 8}

\* Layout::new::<Header>(): state is a usize, awaiter an Option<Waker> of two
\* pointers (None is a null vtable pointer), vtable a reference.
HeaderLayout(width) == Layout(width + 2 * width + width, width)

\* The payload types T, each known by Layout::new::<T>().
Payloads ==
    {Layout(size, 2 ^ k) : size \in 0..MaxSize, k \in 0..MaxAlignLog}

\* crate::task::utils::padding_needed_for: the padding after `layout` that
\* brings the next field to `align`, a power of two:
\* (len + align - 1) & !(align - 1), less len.
padding_needed_for(layout, align) ==
    LET len == layout.size
        up == len + align - 1
    IN  (up - BitAnd(up, align - 1)) - len

\* crate::task::utils::extend(a, b): the layout of a followed by b, and the
\* offset of b in it.
extend(a, b) ==
    LET new_align == IF a.align >= b.align THEN a.align ELSE b.align
        pad == padding_needed_for(a, b.align)
        offset == a.size + pad
        new_size == offset + b.size
    IN  <<Layout(new_size, new_align), offset>>

\* offset_tag placing the payload right behind the header, unpadded.
offset_tag_unpadded(width, T) ==
    HeaderLayout(width).size

\* Header::offset_tag::<T>() on a target of the given pointer width.
offset_tag(width, T) ==
    LET layout_header == HeaderLayout(width)
        layout_t == T
    IN  extend(layout_header, layout_t)[2]

\* A call of offset_tag::<T>() to be made.
InitLayout ==
    /\ state = SCHEDULED + HANDLE + REFERENCE
    /\ awaiter = None
    /\ notifier = Idle
    /\ registrant = Idle
    /\ woken = <<>>
    /\ \E width \in PointerWidths, T \in Payloads :
        hist = <<[op |-> "offset_tag", width |-> width, T |-> T,
                  done |-> FALSE, ret |-> 0]>>

CallOffsetTag ==
    /\ Exclusive
    /\ Len(hist) = 1
    /\ hist[1].op = "offset_tag"
    /\ ~hist[1].done
    /\ hist' = <<[hist[1] EXCEPT
                    !.done = TRUE,
                    !.ret = offset_tag(hist[1].width, hist[1].T)]>>
    /\ UNCHANGED <<state, awaiter, notifier, registrant, woken>>

NextLayout == CallOffsetTag

SpecLayout == InitLayout /\ [][NextLayout]_vars

----------------------------------------------------------------------------
(* Reading the history *)

Has(s, flag) == BitAnd(s, flag) # 0

Calls == 1..Len(hist)

Last == hist[Len(hist)]

\* How many times waker w occurs in a sequence of wakes.
Times(w, s) == Cardinality({k \in DOMAIN s : s[k] = w})

IsCall(i, op) == i \in Calls /\ hist[i].op = op /\ ~hist[i].panic

----------------------------------------------------------------------------
(* Claims about whole calls *)

\* C1: no operation of the header ever clears COMPLETED or CLOSED: a
\* COMPLETED bit that is set stays set across every call, and so does a
\* CLOSED bit, from any state word.
C1_TerminalBitsStay ==
    [][/\ Has(state, COMPLETED) => Has(state', COMPLETED)
       /\ Has(state, CLOSED) => Has(state', CLOSED)]_vars

\* A register that stored its waker in a completed and closed header.
C1_Witness ==
    /\ hist # <<>>
    /\ IsCall(Len(hist), "register")
    /\ Has(Last.pre, COMPLETED) /\ Has(Last.pre, CLOSED)
    /\ Last.post # Last.pre
    /\ Has(state, COMPLETED) /\ Has(state, CLOSED)

\* C2: cancel() on a state with COMPLETED or CLOSED set is a no-op: the
\* whole state word and the cell are unchanged and nothing is woken.
C2_CancelTerminalNoOp ==
    \A i \in Calls :
        (hist[i].op = "cancel" /\ Has(hist[i].pre, COMPLETED + CLOSED))
        => /\ hist[i].post = hist[i].pre
           /\ hist[i].postcell = hist[i].precell
           /\ hist[i].woke = <<>>

\* A cancel of a completed task that holds a waker and references.
C2_Witness ==
    /\ hist # <<>>
    /\ Last.op = "cancel"
    /\ Has(Last.pre, COMPLETED) /\ ~Has(Last.pre, CLOSED)
    /\ Has(Last.pre, AWAITER) /\ Last.precell # None
    /\ ref_count(Last.pre) > 0
    /\ state = Last.pre /\ awaiter = Last.precell

\* register(W) at call i from a live header with an empty cell and no
\* notify or register under way, followed by notify(None).
RegisterThenNotify(i) ==
    /\ IsCall(i, "register") /\ IsCall(i + 1, "notify")
    /\ ~Has(hist[i].pre, COMPLETED + CLOSED + NOTIFYING + REGISTERING)
    /\ hist[i].precell = None
    /\ hist[i + 1].arg = None

\* C3: register(W) then notify(None), from a state with COMPLETED, CLOSED,
\* NOTIFYING and REGISTERING clear and an empty cell, wakes W exactly once,
\* and afterwards AWAITER is clear and the cell is empty.
C3_RegisterThenNotify ==
    \A i \in Calls :
        RegisterThenNotify(i)
        => /\ Times(hist[i].arg, hist[i].woke \o hist[i + 1].woke) = 1
           /\ ~Has(hist[i + 1].post, AWAITER)
           /\ hist[i + 1].postcell = None

C3_Witness ==
    \E i \in Calls :
        /\ RegisterThenNotify(i)
        /\ hist[i + 1].woke = <<hist[i].arg>>
        /\ Has(hist[i].post, AWAITER)

\* notify(None) at call i with no registration, followed by register(W).
NotifyThenRegister(i) ==
    /\ IsCall(i, "notify") /\ IsCall(i + 1, "register")
    /\ hist[i].arg = None
    /\ hist[i].precell = None
    /\ ~Has(hist[i].pre, AWAITER + NOTIFYING + REGISTERING)

\* C4 as stated: notify(None) with no registration and then register(W)
\* wakes W exactly once inside register, and W is not stored: the cell is
\* empty and AWAITER clear after register.
C4_Original ==
    \A i \in Calls :
        NotifyThenRegister(i)
        => /\ hist[i + 1].woke = <<hist[i + 1].arg>>
           /\ hist[i + 1].postcell = None
           /\ ~Has(hist[i + 1].post, AWAITER)

\* C4, amended: notify(None) with no registration wakes nobody and returns
\* with NOTIFYING clear, so the register(W) after it wakes nobody either:
\* it stores W in the cell and sets AWAITER.
C4_NotifyThenRegisterStores ==
    \A i \in Calls :
        NotifyThenRegister(i)
        => /\ hist[i].woke = <<>>
           /\ ~Has(hist[i].post, NOTIFYING)
           /\ hist[i + 1].woke = <<>>
           /\ hist[i + 1].postcell = hist[i + 1].arg
           /\ Has(hist[i + 1].post, AWAITER)

C4_Witness ==
    \E i \in Calls :
        /\ NotifyThenRegister(i)
        /\ i + 1 = Len(hist)
        /\ awaiter = hist[i + 1].arg
        /\ Has(state, AWAITER)

\* C5: AWAITER is set if and only if the cell holds a waker, in every
\* state reached by whole calls from an empty cell with AWAITER, NOTIFYING
\* and REGISTERING clear.
C5_AwaiterIffCell ==
    Has(state, AWAITER) <=> awaiter # None

\* C6: in sequential use every notify(None) that begins while the cell
\* holds W wakes W during that call, and W is the waker of the latest
\* register, also when cancel() calls came between the two.
C6_NoLostWakeup ==
    /\ \A i \in Calls :
        (IsCall(i, "notify") /\ hist[i].arg = None /\ hist[i].precell # None)
        => hist[i].woke = <<hist[i].precell>>
    /\ \A i, j \in Calls :
        (/\ j < i
         /\ IsCall(j, "register")
         /\ IsCall(i, "notify") /\ hist[i].arg = None
         /\ \A k \in Calls : (j < k /\ k < i) => hist[k].op = "cancel")
        => hist[i].woke = <<hist[j].arg>>

\* register(W), a cancel() that closes the task, then notify(None).
C6_Witness ==
    /\ Len(hist) = 3
    /\ IsCall(1, "register")
    /\ hist[2].op = "cancel" /\ hist[2].post # hist[2].pre
    /\ IsCall(3, "notify") /\ hist[3].arg = None
    /\ hist[3].woke = <<hist[1].arg>>

\* register(W) at call i, then two notify(None).
DoubleNotify(i) ==
    /\ IsCall(i, "register")
    /\ IsCall(i + 1, "notify") /\ hist[i + 1].arg = None
    /\ IsCall(i + 2, "notify") /\ hist[i + 2].arg = None

\* C9: after register(W), two notify(None) in a row wake W at most once in
\* total; the second finds the cell empty, wakes nobody and leaves the state
\* word as the first left it.
C9_DoubleNotify ==
    \A i \in Calls :
        DoubleNotify(i)
        => /\ Times(hist[i].arg, hist[i + 1].woke \o hist[i + 2].woke) <= 1
           /\ hist[i + 2].precell = None
           /\ hist[i + 2].woke = <<>>
           /\ hist[i + 2].post = hist[i + 1].post

C9_Witness ==
    \E i \in Calls :
        /\ DoubleNotify(i)
        /\ hist[i + 1].woke = <<hist[i].arg>>
        /\ state = hist[i + 1].post

\* register(W) at call i that stored W, then a notify.
RegisterThenAnyNotify(i) ==
    /\ IsCall(i, "register") /\ hist[i].postcell = hist[i].arg
    /\ IsCall(i + 1, "notify")

\* C10: after register(W), notify(Some(C)) does not wake when C wakes the
\* same task as W and wakes W exactly once when C wakes another task;
\* notify(None) always wakes W.
C10_SelfWakeSuppression ==
    \A i \in Calls :
        RegisterThenAnyNotify(i)
        => LET W == hist[i].arg
               C == hist[i + 1].arg
           IN  /\ C = None => hist[i + 1].woke = <<W>>
               /\ (C # None /\ TaskOf(C) = TaskOf(W))
                  => hist[i + 1].woke = <<>>
               /\ (C # None /\ TaskOf(C) # TaskOf(W))
                  => hist[i + 1].woke = <<W>>

\* A notify whose current is another waker of the registered waker's task.
C10_Witness ==
    \E i \in Calls :
        /\ RegisterThenAnyNotify(i)
        /\ hist[i + 1].arg # None
        /\ hist[i + 1].arg # hist[i].arg
        /\ TaskOf(hist[i + 1].arg) = TaskOf(hist[i].arg)
        /\ hist[i + 1].woke = <<>>

----------------------------------------------------------------------------
(* Claims about one call from any state *)

\* C13: cancel() on a state with neither COMPLETED nor CLOSED leaves the
\* state word equal to exactly CLOSED: every other flag is cleared and the
\* reference count is 0; the cell is unchanged and nothing is woken.
C13_CancelForcesClosed ==
    \A i \in Calls :
        (hist[i].op = "cancel" /\ ~Has(hist[i].pre, COMPLETED + CLOSED))
        => /\ hist[i].post = CLOSED
           /\ ~Has(hist[i].post, SCHEDULED + RUNNING + HANDLE + AWAITER
                                   + NOTIFYING + REGISTERING)
           /\ ref_count(hist[i].post) = 0
           /\ hist[i].postcell = hist[i].precell
           /\ hist[i].woke = <<>>

\* A cancel of a live task with every other flag set, references held and
\* a waker in the cell.
C13_Witness ==
    /\ hist # <<>>
    /\ Last.op = "cancel"
    /\ Last.pre = WordMask - COMPLETED - CLOSED
    /\ Last.precell # None
    /\ state = CLOSED
    /\ awaiter = Last.precell

\* C14: register(W) on a state with NOTIFYING set and REGISTERING clear
\* wakes W exactly once and stores nothing: the state word and the cell are
\* unchanged.
C14_RegisterWhileNotifying ==
    \A i \in Calls :
        (/\ hist[i].op = "register"
         /\ Has(hist[i].pre, NOTIFYING) /\ ~Has(hist[i].pre, REGISTERING))
        => /\ ~hist[i].panic
           /\ hist[i].woke = <<hist[i].arg>>
           /\ hist[i].post = hist[i].pre
           /\ hist[i].postcell = hist[i].precell

\* A register of another waker than the one the cell holds, while NOTIFYING.
C14_Witness ==
    /\ hist # <<>>
    /\ Last.op = "register"
    /\ Has(Last.pre, NOTIFYING) /\ ~Has(Last.pre, REGISTERING)
    /\ Has(Last.pre, AWAITER)
    /\ Last.precell # None /\ Last.precell # Last.arg
    /\ Last.woke = <<Last.arg>>
    /\ awaiter = Last.precell

\* C15: notify on a state with NOTIFYING or REGISTERING set only sets
\* NOTIFYING: the cell is not emptied, AWAITER is not cleared, nothing is
\* woken, and NOTIFYING is set on return.
C15_NotifyWhileBusy ==
    \A i \in Calls :
        (hist[i].op = "notify" /\ Has(hist[i].pre, NOTIFYING + REGISTERING))
        => /\ hist[i].post = BitOr(hist[i].pre, NOTIFYING)
           /\ Has(hist[i].post, NOTIFYING)
           /\ Has(hist[i].post, AWAITER) = Has(hist[i].pre, AWAITER)
           /\ hist[i].postcell = hist[i].precell
           /\ hist[i].woke = <<>>

\* A notify(None) during a registration, with a waker in the cell.
C15_Witness ==
    /\ hist # <<>>
    /\ Last.op = "notify" /\ Last.arg = None
    /\ Has(Last.pre, REGISTERING) /\ ~Has(Last.pre, NOTIFYING)
    /\ Has(Last.pre, AWAITER) /\ Last.precell # None
    /\ Has(state, NOTIFYING)
    /\ awaiter = Last.precell

\* The bits of a word outside the given protocol bits.
Outside(s, bits) == BitAnd(s, BitNot(bits))

\* C16: notify changes no bit other than NOTIFYING and AWAITER, and
\* register no bit other than NOTIFYING, REGISTERING and AWAITER: SCHEDULED,
\* RUNNING, COMPLETED, CLOSED, HANDLE and the reference count are the same
\* after the call as before it.
C16_ProtocolBitsOnly ==
    \A i \in Calls :
        /\ hist[i].op = "notify"
           => Outside(hist[i].post, NOTIFYING + AWAITER)
              = Outside(hist[i].pre, NOTIFYING + AWAITER)
        /\ hist[i].op = "register"
           => Outside(hist[i].post, NOTIFYING + REGISTERING + AWAITER)
              = Outside(hist[i].pre, NOTIFYING + REGISTERING + AWAITER)
        /\ hist[i].op \in {"notify", "register"}
           => /\ \A f \in {SCHEDULED, RUNNING, COMPLETED, CLOSED, HANDLE} :
                   Has(hist[i].post, f) = Has(hist[i].pre, f)
              /\ ref_count(hist[i].post) = ref_count(hist[i].pre)

\* A register that set AWAITER in a word with every other flag and
\* references.
C16_Witness ==
    /\ hist # <<>>
    /\ Last.op = "register"
    /\ Last.pre = WordMask - AWAITER - NOTIFYING - REGISTERING
    /\ state = WordMask - NOTIFYING - REGISTERING

----------------------------------------------------------------------------
(* Claims about sequential use *)

\* C17: NOTIFYING and REGISTERING are transient.  From a state with both
\* clear, both are clear again after every complete cancel, notify or
\* register of a sequential sequence; so the debug assertion of register
\* always holds, register never takes its immediate-wake branch and notify
\* never takes its do-nothing branch.
C17_TransientFlags ==
    /\ ~Has(state, NOTIFYING + REGISTERING)
    /\ \A i \in Calls :
        /\ ~Has(hist[i].pre, NOTIFYING + REGISTERING)
        /\ ~Has(hist[i].post, NOTIFYING + REGISTERING)
        /\ ~hist[i].panic
        /\ hist[i].op = "register"
           => /\ hist[i].woke = <<>>
              /\ hist[i].postcell = clone(hist[i].arg)
              /\ Has(hist[i].post, AWAITER)
        /\ hist[i].op = "notify"
           => /\ hist[i].postcell = None
              /\ ~Has(hist[i].post, AWAITER)

\* register, notify and register again: the second register passes the
\* assertion and stores.
C17_Witness ==
    /\ Len(hist) = 3
    /\ hist[1].op = "register"
    /\ hist[2].op = "notify" /\ hist[2].woke = <<hist[1].arg>>
    /\ hist[3].op = "register" /\ ~hist[3].panic
    /\ ~Has(state, NOTIFYING + REGISTERING)
    /\ Has(state, AWAITER)
    /\ awaiter = hist[3].arg

\* The latest register among the remembered calls.
LatestRegister ==
    {i \in Calls : /\ hist[i].op = "register"
                   /\ \A j \in Calls : j > i => hist[j].op # "register"}

\* C18: in sequential use from an empty cell with AWAITER, NOTIFYING and
\* REGISTERING clear, whenever AWAITER is set the cell holds a waker, and it
\* is the waker passed to the most recent register: a register that leaves
\* AWAITER set stored its argument, and any other call that leaves AWAITER
\* set found it set and kept the cell.
C18_AwaiterImpliesCell ==
    /\ Has(state, AWAITER) => awaiter # None
    /\ \A i \in LatestRegister :
        Has(state, AWAITER) => awaiter = clone(hist[i].arg)
    /\ \A i \in Calls :
        Has(hist[i].post, AWAITER)
        => /\ hist[i].postcell # None
           /\ hist[i].op = "register"
              => hist[i].postcell = clone(hist[i].arg)
           /\ hist[i].op # "register"
              => /\ Has(hist[i].pre, AWAITER)
                 /\ hist[i].postcell = hist[i].precell

\* Two registers of different wakers and a cancel of a completed task, which
\* keeps AWAITER: the cell holds the second waker.
C18_Witness ==
    /\ Len(hist) = 3
    /\ hist[1].op = "register"
    /\ hist[2].op = "register" /\ hist[2].arg # hist[1].arg
    /\ hist[3].op = "cancel"
    /\ Has(state, AWAITER)
    /\ awaiter = hist[2].arg

\* register(W1) at call i directly followed by register(W2).
Reregister(i) ==
    /\ IsCall(i, "register")
    /\ IsCall(i + 1, "register")

\* C19: re-registration replaces the pending target.  After register(W1)
\* and register(W2) with no notify in between the cell holds only W2 and
\* AWAITER is set; a following notify(None) wakes W2 exactly once; W1 is
\* not woken by any later operation (a call wakes nothing but what it finds
\* in the cell, and the cell no longer holds W1); the cell holds at most
\* one target.
C19_ReregisterReplaces ==
    /\ awaiter \in {None} \cup Wakers
    /\ \A i \in Calls :
        /\ hist[i].postcell \in {None} \cup Wakers
        /\ \A k \in DOMAIN hist[i].woke : hist[i].woke[k] = hist[i].precell
    /\ \A i \in Calls :
        Reregister(i)
        => LET W1 == hist[i].arg
               W2 == hist[i + 1].arg
           IN  /\ hist[i + 1].postcell = W2
               /\ Has(hist[i + 1].post, AWAITER)
               /\ hist[i].woke \o hist[i + 1].woke = <<>>
               /\ (i + 2) \in Calls
                  => /\ W1 # W2 => Times(W1, hist[i + 2].woke) = 0
                     /\ Len(hist[i + 2].woke) <= 1
                     /\ (hist[i + 2].op = "notify" /\ hist[i + 2].arg = None)
                        => /\ hist[i + 2].woke = <<W2>>
                           /\ hist[i + 2].postcell = None

\* register(W1), register(W2) with another task's waker, notify(None).
C19_Witness ==
    /\ Len(hist) = 3
    /\ Reregister(1)
    /\ TaskOf(hist[1].arg) # TaskOf(hist[2].arg)
    /\ hist[3].op = "notify" /\ hist[3].arg = None
    /\ hist[3].woke = <<hist[2].arg>>
    /\ awaiter = None

\* register(W) at call i directly followed by notify(Some(C)) with C a waker
\* of W's task.
SuppressedSelfWake(i) ==
    /\ IsCall(i, "register")
    /\ IsCall(i + 1, "notify")
    /\ hist[i + 1].arg # None
    /\ will_wake(hist[i].arg, hist[i + 1].arg)

\* C20: a suppressed self-wake consumes the registration.  After
\* register(W) and notify(Some(C)) with C waking W's task no wake was
\* delivered, the cell is empty and AWAITER is clear; a following call that
\* is not a register finds the cell empty and wakes nobody, so notify(None)
\* delivers no wake and W is never woken for that registration.
C20_SuppressedWakeConsumes ==
    /\ \A i \in Calls :
        (hist[i].op # "register" /\ hist[i].precell = None)
        => hist[i].woke = <<>> /\ hist[i].postcell = None
    /\ \A i \in Calls :
        SuppressedSelfWake(i)
        => /\ hist[i].woke \o hist[i + 1].woke = <<>>
           /\ hist[i + 1].postcell = None
           /\ ~Has(hist[i + 1].post, AWAITER)
           /\ ((i + 2) \in Calls /\ hist[i + 2].op # "register")
              => /\ hist[i + 2].precell = None
                 /\ hist[i + 2].woke = <<>>
                 /\ ~Has(hist[i + 2].post, AWAITER)

\* register(W), notify(Some(C)) with C another waker of W's task, then
\* notify(None), which wakes nobody.
C20_Witness ==
    /\ Len(hist) = 3
    /\ SuppressedSelfWake(1)
    /\ hist[2].arg # hist[1].arg
    /\ hist[3].op = "notify" /\ hist[3].arg = None
    /\ hist[3].woke = <<>>
    /\ woken = <<>>
    /\ awaiter = None
    /\ ~Has(state, AWAITER)

----------------------------------------------------------------------------
(* Claims about crossing calls *)

\* Where register stands between its store of the waker and its commit.
Stored == {"r104", "r118"}

\* Where register stands between setting REGISTERING and its commit.
Registering == {"r96", "r104", "r118"}

\* Both calls have returned, and the whole notify(None) ran after register
\* had set REGISTERING and stored its waker, and before register committed.
Crossed ==
    /\ notifier.pc = "done" /\ registrant.pc = "done"
    /\ notifier.current = None
    /\ notifier.began \in Stored /\ notifier.ended \in Stored

WakesOf(w) ==
    Cardinality({k \in DOMAIN woken : woken[k].waker = w})

\* C7: when a notify(None) runs after register(W) has set REGISTERING and
\* stored W and before register commits, register drains the cell, commits
\* NOTIFYING, REGISTERING and AWAITER clear and wakes the drained waker: W is
\* woken exactly once over the two calls.
C7_CrossingNotifyIsDelivered ==
    Crossed
    => /\ awaiter = None
       /\ ~Has(state, NOTIFYING + REGISTERING + AWAITER)
       /\ WakesOf(registrant.arg) = 1

\* C8: notify is never about to take the waker out of the cell while
\* register is between setting REGISTERING and committing its state.
C8_CellMutualExclusion ==
    ~(notifier.pc = "n57" /\ registrant.pc \in Registering)

----------------------------------------------------------------------------
(* Claims about faults in a wake *)

\* C11: a panic raised inside a wake invocation made by notify or register
\* never unwinds back to the caller: the process is aborted by that step,
\* and from the aborted state no further step of any header operation runs,
\* so no later state word or cell is observed.
C11_WakeFaultAborts ==
    [][/\ ~Aborted
       /\ (Len(woken') > Len(woken) /\ woken'[Len(woken')].fault)
          => Aborted']_vars

\* The wake made by notify panicked while a register call was under way.
C11_Witness ==
    /\ Aborted
    /\ woken # <<>>
    /\ woken[Len(woken)].fault
    /\ woken[Len(woken)].by = "notify"
    /\ Has(state, REGISTERING)

----------------------------------------------------------------------------
(* Claims about the layout *)

\* The offset_tag calls that have returned.
TagCalls == {i \in Calls : hist[i].op = "offset_tag" /\ hist[i].done}

\* C12: for every payload type T, offset_tag<T>() returns the smallest
\* offset that is at least the header's size and a multiple of T's
\* alignment; the payloads include sizes {0,1,3,8,16} and alignments
\* {1,2,4,8,16}.
C12_OffsetTagSmallestAligned ==
    \A i \in TagCalls :
        LET header == HeaderLayout(hist[i].width)
            align == hist[i].T.align
            ret == hist[i].ret
        IN  /\ ret >= header.size
            /\ ret % align = 0
            /\ \A o \in header.size..(ret - 1) : o % align # 0

\* offset_tag of a type of size 3 and alignment 16 behind a 64-bit header.
C12_Witness ==
    \E i \in TagCalls :
        /\ hist[i].width = 8
        /\ hist[i].T = Layout(3, 16)
        /\ hist[i].ret = HeaderLayout(8).size

=============================================================================
